---- MODULE Spec2Model ----
(***************************************************************************)
(* Model of cord19q's Grammar (src/python/cord19q/grammar.py): the         *)
(* sentence classifier that labels a text QUESTION, FRAGMENT or None from  *)
(* the tags and dependency relations an external parser (spaCy) produces.  *)
(*                                                                         *)
(* One call of Grammar.label is run as a sequence of steps (pc): the call  *)
(* itself, the parse, the correction rule, and the labelling.  The parser  *)
(* is a collaborator: nlp gives, for each text, the outcomes it can        *)
(* produce (a token sequence, or a failure).                               *)
(***************************************************************************)
EXTENDS Integers, Sequences, FiniteSets

VARIABLES
    pc,       \* position of the current call of label
    text,     \* the argument of the current call
    label,    \* label's local variable "label", as the last call left it
    tokens,   \* label's local variable "tokens" (the Doc, mutated in place)
    doc,      \* what the parser returned to this call, as it returned it
    calls,    \* the collaborators and methods this call has invoked, in order
    locals,   \* isFragment's locals nouns, action, words, once evaluated
    nlp,      \* the parser: deterministic (one outcome per text) or any
    results   \* the outcomes a caller has seen, in order, per text it watches

vars == <<pc, text, label, tokens, doc, calls, locals, nlp, results>>

----------------------------------------------------------------------------
(* Bounds *)

\* longest input text, in characters
MaxTextLen == 2
\* most multi-character filler words in a parse, besides subject and governor
MaxWords == 3
\* most trailing tokens (single letters, punctuation, symbols, spaces)
MaxTail == 1
\* most outcomes a caller keeps per text
MaxSeen == 2

----------------------------------------------------------------------------
(* Strings: a Python str is a sequence of one-character strings *)

UpperCase == <<"A","B","C","D","E","F","G","H","I","J","K","L","M",
               "N","O","P","Q","R","S","T","U","V","W","X","Y","Z">>
LowerCase == <<"a","b","c","d","e","f","g","h","i","j","k","l","m",
               "n","o","p","q","r","s","t","u","v","w","x","y","z">>

\* each upper-case letter's lower-case letter
ToLower ==
    [c \in {UpperCase[i] : i \in DOMAIN UpperCase} |->
        LowerCase[CHOOSE i \in DOMAIN UpperCase : UpperCase[i] = c]]

\* str.lower() on one character
LowerChar(c) == IF c \in DOMAIN ToLower THEN ToLower[c] ELSE c

\* str.lower()
Lower(s) == [i \in DOMAIN s |-> LowerChar(s[i])]

\* the characters str.strip() removes
Whitespace == {" ", "\t", "\n"}

RECURSIVE LStrip(_)
LStrip(s) ==
    IF s = <<>> THEN s
    ELSE IF Head(s) \in Whitespace THEN LStrip(Tail(s)) ELSE s

RECURSIVE RStrip(_)
RStrip(s) ==
    IF s = <<>> THEN s
    ELSE IF s[Len(s)] \in Whitespace THEN RStrip(SubSeq(s, 1, Len(s) - 1)) ELSE s

\* str.strip()
Strip(s) == RStrip(LStrip(s))

\* str.endswith(c) for a one-character suffix
EndsWith(s, c) == Len(s) >= 1 /\ s[Len(s)] = c

----------------------------------------------------------------------------
(* Input texts: None, or a str *)

NoneText == [isNone |-> TRUE, s |-> <<>>]
Str(s) == [isNone |-> FALSE, s |-> s]

Chars == {" ", "?", "a"}
Strings == UNION {[1..n -> Chars] : n \in 0..MaxTextLen}
Texts == {NoneText} \cup {Str(s) : s \in Strings}

\* Python truthiness of the argument: "if text:"
TruthyEmptyStr(t) == ~t.isNone
TruthyNonBlank(t) == ~t.isNone /\ Strip(t.s) # <<>>
Truthy(t) == ~t.isNone /\ Len(t.s) > 0

----------------------------------------------------------------------------
(* Tokens: surface text, part-of-speech tag, dependency relation, and the  *)
(* index of the head; a token's children are the other tokens it heads     *)

Tok(s, p, d, h) == [text |-> s, pos |-> p, dep |-> d, head |-> h]

Children(toks, i) == {j \in DOMAIN toks : j # i /\ toks[j].head = i}

W2019nCoV == <<"2","0","1","9","-","n","C","o","V">>
W2019ncov == <<"2","0","1","9","-","n","c","o","v">>
WVirus    == <<"v","i","r","u","s">>
WCauses   == <<"c","a","u","s","e","s">>
WSevere   == <<"s","e","v","e","r","e">>
WPneumonia == <<"p","n","e","u","m","o","n","i","a">>
WCells    == <<"c","e","l","l","s">>
WX        == <<"x">>
WDot      == <<".">>
WEquals   == <<"=","=">>
WSpaces   == <<" "," ">>


FillerWords == <<WSevere, WPneumonia, WCells>>
FillerTags == <<[pos |-> "ADJ", dep |-> "amod"], [pos |-> "NOUN", dep |-> "dobj"],
                [pos |-> "NUM", dep |-> "nummod"]>>

\* the i-th multi-character filler word, attached to token h
Filler(i, h) ==
    Tok(FillerWords[((i - 1) % Len(FillerWords)) + 1],
        FillerTags[((i - 1) % Len(FillerTags)) + 1].pos,
        FillerTags[((i - 1) % Len(FillerTags)) + 1].dep, h)

TailKinds == {"letter", "punct", "sym", "space"}

\* a trailing token: a single letter, or a token the word count skips by tag
TailTok(kind, h) ==
    CASE kind = "letter" -> Tok(WX, "NOUN", "dep", h)
      [] kind = "punct"  -> Tok(WDot, "PUNCT", "punct", h)
      [] kind = "sym"    -> Tok(WEquals, "SYM", "punct", h)
      [] kind = "space"  -> Tok(WSpaces, "SPACE", "dep", h)

\* subject and governor, the subject attached to token 2 (the governor) or 3
SubjForms == {<<W2019nCoV, "NUM">>, <<WVirus, "NUM">>, <<WVirus, "NOUN">>,
              <<WVirus, "PROPN">>}
SubjDeps == {"nsubj", "nsubjpass", "dobj"}
GovTags == {"VERB", "AUX", "ADV", "NOUN"}
GovDeps == {"ROOT", "appos", "conj"}

Cores ==
    {<<>>} \cup
    {<<Tok(f[1], f[2], d, h), Tok(WCauses, gp, gd, 2)>> :
        f \in SubjForms, d \in SubjDeps, h \in {2, 3}, gp \in GovTags, gd \in GovDeps}

Tails == {<<"punct", 0>>} \cup (TailKinds \X (1..MaxTail))

\* the token sequence: core, then k filler words, then the tail
MkDoc(core, k, tail) ==
    LET r == IF core = <<>> THEN 1 ELSE 2
    IN  core \o [i \in 1..k |-> Filler(i, r)] \o [i \in 1..tail[2] |-> TailTok(tail[1], r)]

\* every head is a token of the sequence
WellFormed(toks) == \A i \in DOMAIN toks : toks[i].head \in DOMAIN toks

Docs ==
    {d \in {MkDoc(c, k, t) : c \in Cores, k \in 0..MaxWords, t \in Tails} :
        WellFormed(d)}

\* what one invocation of the parser yields
NoDoc == [kind |-> "none", tokens |-> <<>>]
ParseError == [kind |-> "error", tokens |-> <<>>]
Parsed(toks) == [kind |-> "doc", tokens |-> toks]
Outcomes == {ParseError} \cup {Parsed(d) : d \in Docs}

----------------------------------------------------------------------------
(* Grammar's methods *)

\* Python's any() over a list of booleans
Any(bs) == \E i \in DOMAIN bs : bs[i]

Retag(t) == [t EXCEPT !.pos = "NOUN"]

\* applyRules, lines 60-64
applyRulesCaseSensitive(toks) ==
    [i \in DOMAIN toks |->
        IF toks[i].pos = "NUM" /\ toks[i].text = W2019ncov THEN Retag(toks[i])
        ELSE toks[i]]
applyRulesAllNum(toks) ==
    [i \in DOMAIN toks |-> IF toks[i].pos = "NUM" THEN Retag(toks[i]) ELSE toks[i]]
applyRules(toks) ==
    [i \in DOMAIN toks |->
        IF toks[i].pos = "NUM" /\ Lower(toks[i].text) = W2019ncov THEN Retag(toks[i])
        ELSE toks[i]]

\* isQuestion, line 78
isQuestionNoStrip(t) == EndsWith(t.s, "?")
isQuestion(t) == EndsWith(Strip(t.s), "?")

\* isFragment's local "nouns", line 92
nounsOf(toks) ==
    Any([i \in DOMAIN toks |->
            toks[i].pos \in {"NOUN", "PROPN"} /\ toks[i].dep \in {"nsubj", "nsubjpass"}])

\* isFragment's local "action", lines 95 and 98
actionOfRootOnly(toks) ==
    \/ Any([i \in DOMAIN toks |-> toks[i].pos \in {"ADV", "AUX", "VERB"}])
    \/ Any([i \in DOMAIN toks |->
              /\ toks[i].dep \in {"ROOT"}
              /\ \E x \in Children(toks, i) : toks[x].dep \in {"nsubj", "nsubjpass"}])
actionOf(toks) ==
    \/ Any([i \in DOMAIN toks |-> toks[i].pos \in {"ADV", "AUX", "VERB"}])
    \/ Any([i \in DOMAIN toks |->
              /\ toks[i].dep \in {"appos", "ROOT"}
              /\ \E x \in Children(toks, i) : toks[x].dep \in {"nsubj", "nsubjpass"}])

IsWord(t) == t.pos \notin {"PUNCT", "SPACE", "SYM"} /\ Len(t.text) > 1
IsNotPunct(t) == t.pos \notin {"PUNCT", "SPACE", "SYM"}

\* isFragment's local "words", line 101
wordsOfAnyLength(toks) ==
    LET kept == SelectSeq(toks, IsNotPunct) IN [i \in DOMAIN kept |-> kept[i].text]
wordsOf(toks) ==
    LET kept == SelectSeq(toks, IsWord) IN [i \in DOMAIN kept |-> kept[i].text]

\* the least number of words of a valid sentence, line 107
MinWords == 5

\* isFragment's locals, as the function leaves them
NoLocals == [evaluated |-> FALSE, nouns |-> FALSE, action |-> FALSE, words |-> <<>>]
Locals(toks) ==
    [evaluated |-> TRUE, nouns |-> nounsOf(toks), action |-> actionOf(toks),
     words |-> wordsOf(toks)]

\* valid, line 107
valid(l) == l.nouns /\ l.action /\ Len(l.words) >= MinWords
validNoAction(l) == l.nouns /\ Len(l.words) >= MinWords

\* isFragment, lines 92-109
isFragmentNoAction(toks) == ~validNoAction(Locals(toks))
isFragment(toks) == ~valid(Locals(toks))

----------------------------------------------------------------------------
(* The parser, self.nlp of line 14 *)

\* any parser: every outcome is possible for every text, on every call
AnyParser == [deterministic |-> FALSE, of |-> <<>>]
\* a deterministic parser: the outcome f[t] for text t, on every call
DetParser(f) == [deterministic |-> TRUE, of |-> f]

\* the texts the parser is defined on
ParserTexts == IF nlp.deterministic THEN DOMAIN nlp.of ELSE {t \in Texts : Truthy(t)}

----------------------------------------------------------------------------
(* Grammar.label, lines 16-46 *)

\* the texts callers pass: the falsy ones, and those the parser is defined on
Inputs == {t \in Texts : ~Truthy(t)} \cup ParserTexts

\* the outcomes the parser can produce for text t
Yields(t) == IF nlp.deterministic THEN {nlp.of[t]} ELSE Outcomes

\* the caller's record of an outcome r for the text of the call
Record(r) ==
    IF text \in DOMAIN results /\ Len(results[text]) < MaxSeen
    THEN [results EXCEPT ![text] = Append(@, r)]
    ELSE results

\* label(text) is called; line 31 sets label to None
CallKeepsLabel ==
    /\ pc = "idle"
    /\ \E t \in Inputs : text' = t
    /\ pc' = "start"
    /\ UNCHANGED <<label, tokens, doc, calls, locals, nlp, results>>
Call ==
    /\ pc = "idle"
    /\ \E t \in Inputs : text' = t
    /\ pc' = "start"
    /\ label' = "None"
    /\ UNCHANGED <<tokens, doc, calls, locals, nlp, results>>

\* line 33 with a falsy text: straight to the return of line 46
ReturnFalsy ==
    /\ pc = "start"
    /\ ~Truthy(text)
    /\ pc' = "returned"
    /\ results' = Record(label)
    /\ UNCHANGED <<text, label, tokens, doc, calls, locals, nlp>>

\* line 35: the parser returns a Doc
Parse ==
    /\ pc = "start"
    /\ Truthy(text)
    /\ \E o \in Yields(text) :
        /\ o.kind = "doc"
        /\ doc' = o
        /\ tokens' = o.tokens
    /\ calls' = Append(calls, "nlp")
    /\ pc' = "parsed"
    /\ UNCHANGED <<text, label, locals, nlp, results>>

\* line 35: the parser raises, and label has no handler
ParseFailsCaught ==
    /\ pc = "start"
    /\ Truthy(text)
    /\ ParseError \in Yields(text)
    /\ doc' = ParseError
    /\ calls' = Append(calls, "nlp")
    /\ pc' = "returned"
    /\ results' = Record(label)
    /\ UNCHANGED <<text, label, tokens, locals, nlp>>
ParseFails ==
    /\ pc = "start"
    /\ Truthy(text)
    /\ ParseError \in Yields(text)
    /\ doc' = ParseError
    /\ calls' = Append(calls, "nlp")
    /\ pc' = "raised"
    /\ results' = Record("raised")
    /\ UNCHANGED <<text, label, tokens, locals, nlp>>

\* line 38: the correction rule, on the Doc the parser returned to this call
ApplyRules ==
    /\ pc = "parsed"
    /\ tokens' = applyRules(tokens)
    /\ calls' = Append(calls, "applyRules")
    /\ pc' = "ruled"
    /\ UNCHANGED <<text, label, doc, locals, nlp, results>>

\* lines 41-42 and 46
LabelQuestion ==
    /\ pc = "ruled"
    /\ isQuestion(text)
    /\ label' = "QUESTION"
    /\ calls' = Append(calls, "isQuestion")
    /\ pc' = "returned"
    /\ results' = Record(label')
    /\ UNCHANGED <<text, tokens, doc, locals, nlp>>

\* lines 41, 43-44 and 46
LabelFragment ==
    /\ pc = "ruled"
    /\ ~isQuestion(text)
    /\ isFragment(tokens)
    /\ locals' = Locals(tokens)
    /\ label' = "FRAGMENT"
    /\ calls' = calls \o <<"isQuestion", "isFragment">>
    /\ pc' = "returned"
    /\ results' = Record(label')
    /\ UNCHANGED <<text, tokens, doc, nlp>>

\* lines 41, 43 and 46: neither test holds, label stays as line 31 left it
LabelNone ==
    /\ pc = "ruled"
    /\ ~isQuestion(text)
    /\ ~isFragment(tokens)
    /\ locals' = Locals(tokens)
    /\ calls' = calls \o <<"isQuestion", "isFragment">>
    /\ pc' = "returned"
    /\ results' = Record(label)
    /\ UNCHANGED <<text, label, tokens, doc, nlp>>

\* the call is over, by return or by exception: its Doc and locals are gone
Exit ==
    /\ pc \in {"returned", "raised"}
    /\ pc' = "idle"
    /\ text' = NoneText
    /\ tokens' = <<>>
    /\ doc' = NoDoc
    /\ calls' = <<>>
    /\ locals' = NoLocals
    /\ UNCHANGED <<label, nlp, results>>

Next ==
    \/ Call
    \/ ReturnFalsy
    \/ Parse
    \/ ParseFails
    \/ ApplyRules
    \/ LabelQuestion
    \/ LabelFragment
    \/ LabelNone
    \/ Exit

Idle ==
    /\ pc = "idle"
    /\ text = NoneText
    /\ label = "None"
    /\ tokens = <<>>
    /\ doc = NoDoc
    /\ calls = <<>>
    /\ locals = NoLocals

\* any parser, and a caller that records nothing
Init ==
    /\ Idle
    /\ nlp = AnyParser
    /\ results = <<>>

Spec == Init /\ [][Next]_vars

\* the texts and parses of the deterministic parsers
DetTexts == {Str(<<"a">>), Str(<<"a", "?">>), Str(<<" ">>)}
SubjNum == Tok(W2019nCoV, "NUM", "nsubj", 2)
GovVerb == Tok(WCauses, "VERB", "ROOT", 2)
DetOutcomes ==
    {ParseError,
     Parsed(<<>>),
     Parsed(MkDoc(<<SubjNum, GovVerb>>, 2, <<"punct", 1>>)),
     Parsed(MkDoc(<<SubjNum, GovVerb>>, 3, <<"punct", 1>>))}

\* a deterministic parser: one outcome per text, the same on every call;
\* the caller records every result
InitDet ==
    /\ Idle
    /\ \E f \in [DetTexts -> DetOutcomes] : nlp = DetParser(f)
    /\ results = [t \in {t \in Texts : ~Truthy(t)} \cup DetTexts |-> <<>>]

SpecDet == InitDet /\ [][Next]_vars

----------------------------------------------------------------------------
(* The vocabulary of the claims, over a token sequence and an input text *)

\* the text is a str of at least one character
NonEmpty(t) == ~t.isNone /\ Len(t.s) > 0

\* the text is None or the empty str
EmptyOrNull(t) == t.isNone \/ Len(t.s) = 0

\* the last character that is not whitespace is a question mark
TrimmedEndsInQuestion(t) ==
    \E i \in DOMAIN t.s :
        /\ t.s[i] = "?"
        /\ \A j \in DOMAIN t.s : j > i => t.s[j] \in Whitespace

\* some token is a noun or proper noun in a nominal-subject relation
NominalSubject(toks) ==
    \E i \in DOMAIN toks :
        /\ toks[i].pos = "NOUN" \/ toks[i].pos = "PROPN"
        /\ toks[i].dep = "nsubj" \/ toks[i].dep = "nsubjpass"

\* some token is tagged as an adverb, auxiliary or verb
ActionTag(toks) ==
    \E i \in DOMAIN toks : toks[i].pos = "ADV" \/ toks[i].pos = "AUX" \/ toks[i].pos = "VERB"

\* some root or appositive token governs a token in a nominal-subject relation
GovernedSubject(toks) ==
    \E i \in DOMAIN toks, j \in DOMAIN toks :
        /\ toks[i].dep = "appos" \/ toks[i].dep = "ROOT"
        /\ j # i /\ toks[j].head = i
        /\ toks[j].dep = "nsubj" \/ toks[j].dep = "nsubjpass"

ActionPresent(toks) == ActionTag(toks) \/ GovernedSubject(toks)

\* the tokens that count as words
Qualifying(toks) ==
    {i \in DOMAIN toks :
        /\ toks[i].pos # "PUNCT" /\ toks[i].pos # "SPACE" /\ toks[i].pos # "SYM"
        /\ Len(toks[i].text) >= 2}

QualifyingCount(toks) == Cardinality(Qualifying(toks))

\* token i of the parser's output is the mistagged identifier
Mistagged(raw, i) == raw[i].pos = "NUM" /\ Lower(raw[i].text) = W2019ncov

\* the call has returned a label for a non-empty text that is not a question
ReturnedNonQuestion ==
    pc = "returned" /\ NonEmpty(text) /\ ~TrimmedEndsInQuestion(text)

----------------------------------------------------------------------------
(* C1: whenever label returns for a text whose trimmed form ends in "?",   *)
(* it returns QUESTION, whatever tokens the parser produced, also when the *)
(* tokens fail the valid-sentence test.                                    *)
TheoremC1 ==
    (pc = "returned" /\ ~text.isNone /\ TrimmedEndsInQuestion(text))
        => label = "QUESTION"

\* a question followed by whitespace, whose tokens are no valid sentence
WitnessC1 ==
    /\ pc = "returned"
    /\ TrimmedEndsInQuestion(text)
    /\ text.s[Len(text.s)] = " "
    /\ ~(NominalSubject(tokens) /\ ActionPresent(tokens) /\ QualifyingCount(tokens) >= 5)
    /\ label = "QUESTION"

(* C2: for a non-empty text that is not a question, label returns FRAGMENT *)
(* exactly when the corrected tokens lack a nominal subject, an action or  *)
(* five qualifying words, and None otherwise.                              *)
TheoremC2 ==
    ReturnedNonQuestion =>
        /\ label \in {"FRAGMENT", "None"}
        /\ label = "FRAGMENT" <=>
             ~(NominalSubject(tokens) /\ ActionPresent(tokens)
                 /\ QualifyingCount(tokens) >= 5)

\* a sentence with a proper-noun subject, a verb and five words comes back None
WitnessC2 ==
    /\ ReturnedNonQuestion
    /\ label = "None"
    /\ \E i \in DOMAIN tokens : tokens[i].pos = "PROPN" /\ tokens[i].dep = "nsubjpass"
    /\ \E i \in DOMAIN tokens : tokens[i].pos = "VERB"
    /\ QualifyingCount(tokens) = 5

(* C3: for None or the empty string, label returns None, and the call      *)
(* never invokes the parser, the correction rule or either predicate.      *)
TheoremC3 ==
    (pc # "idle" /\ EmptyOrNull(text)) =>
        /\ pc \in {"start", "returned"}
        /\ calls = <<>>
        /\ doc = NoDoc
        /\ tokens = <<>>
        /\ ~locals.evaluated
        /\ pc = "returned" => label = "None"

\* label("") has returned
WitnessC3 ==
    /\ pc = "returned"
    /\ ~text.isNone /\ text.s = <<>>
    /\ label = "None"
    /\ calls = <<>>

(* C4, as amended: a token the parser tagged NUM whose lowercased text is   *)
(* "2019-ncov" is tagged NOUN from the correction rule on, hence when the  *)
(* fragment predicate is evaluated; a sentence that is not a question,     *)
(* whose only nominal subject is that token and that has an action and     *)
(* five qualifying words is labeled None; "2019-nCoV causes severe         *)
(* pneumonia." has four qualifying words and is labeled FRAGMENT.          *)

\* the parse of "2019-nCoV causes severe pneumonia."
Sentence2019 ==
    <<Tok(W2019nCoV, "NUM", "nsubj", 2), Tok(WCauses, "VERB", "ROOT", 2),
      Tok(WSevere, "ADJ", "amod", 2), Tok(WPneumonia, "NOUN", "dobj", 2),
      Tok(WDot, "PUNCT", "punct", 2)>>

\* the mistagged identifier is the nominal subject, and no other token is
ReliesOn2019(raw) ==
    /\ \E i \in DOMAIN raw :
          Mistagged(raw, i) /\ (raw[i].dep = "nsubj" \/ raw[i].dep = "nsubjpass")
    /\ ~NominalSubject(raw)

\* the retag is in place from the correction rule on
Retagged ==
    pc \in {"ruled", "returned"} =>
        \A i \in DOMAIN doc.tokens : Mistagged(doc.tokens, i) => tokens[i].pos = "NOUN"

\* C4, amended: the retag is in place when the predicate runs; with an action
\* and five words the sentence is None; the four-word example is FRAGMENT
TheoremC4 ==
    /\ Retagged
    /\ locals.evaluated => \A i \in DOMAIN tokens : ~Mistagged(tokens, i)
    /\ (ReturnedNonQuestion /\ ReliesOn2019(doc.tokens) /\ ActionPresent(tokens)
            /\ QualifyingCount(tokens) >= 5) => label = "None"
    /\ (ReturnedNonQuestion /\ doc.tokens = Sentence2019) => label = "FRAGMENT"

\* a five-word sentence whose subject is the retagged identifier comes back None
WitnessC4 ==
    /\ ReturnedNonQuestion
    /\ ReliesOn2019(doc.tokens)
    /\ label = "None"

\* C4 as stated: the retag, and the example sentence is not labeled FRAGMENT
OriginalC4 ==
    /\ Retagged
    /\ (ReturnedNonQuestion /\ doc.tokens = Sentence2019) => label # "FRAGMENT"

(* C5: the word count is the number of tokens whose tag is not PUNCT,      *)
(* SPACE or SYM and whose text has more than one character; a sentence     *)
(* that is not a question and has fewer than five of them is FRAGMENT,     *)
(* however many single-character tokens it has.                            *)
TheoremC5 ==
    /\ locals.evaluated => Len(locals.words) = QualifyingCount(tokens)
    /\ (ReturnedNonQuestion /\ QualifyingCount(tokens) < 5) => label = "FRAGMENT"

\* subject and action present, four words padded to five tokens by a single letter
WitnessC5 ==
    /\ ReturnedNonQuestion
    /\ NominalSubject(tokens) /\ ActionPresent(tokens)
    /\ QualifyingCount(tokens) = 4
    /\ Cardinality({i \in DOMAIN tokens :
                       tokens[i].pos \notin {"PUNCT", "SPACE", "SYM"}}) >= 5
    /\ label = "FRAGMENT"

(* C6: with a deterministic parser, every outcome a caller has seen for a  *)
(* text is the same, whatever calls came in between.                       *)
TheoremC6 ==
    \A t \in DOMAIN results :
        \A i \in DOMAIN results[t], j \in DOMAIN results[t] :
            results[t][i] = results[t][j]

\* a text labeled twice, its tag overridden in this call, another text labeled too
WitnessC6 ==
    /\ pc = "returned"
    /\ text \in DOMAIN results /\ Len(results[text]) >= 2
    /\ \E i \in DOMAIN doc.tokens : Mistagged(doc.tokens, i)
    /\ \E t \in DOMAIN results : t # text /\ NonEmpty(t) /\ Len(results[t]) >= 1

(* C7: when the parser fails the call ends raised: label assigned nothing, *)
(* the parser was invoked once and nothing else was, and a call ends       *)
(* raised only so; also for a text that is a question.                     *)
TheoremC7 ==
    /\ doc = ParseError =>
          /\ pc = "raised"
          /\ label = "None"
          /\ calls = <<"nlp">>
          /\ ~locals.evaluated
    /\ pc = "raised" => doc = ParseError

\* the parser failed on a question
WitnessC7 ==
    /\ pc = "raised"
    /\ doc = ParseError
    /\ TrimmedEndsInQuestion(text)

(* C8: the action condition holds iff some token is tagged ADV, AUX or     *)
(* VERB or some appos or ROOT token has a child in relation nsubj or       *)
(* nsubjpass; so a sentence that is not a question, with no such tag, a    *)
(* nominal subject and five words is None iff such a child exists.         *)
TheoremC8 ==
    /\ locals.evaluated => (locals.action <=> ActionPresent(tokens))
    /\ (ReturnedNonQuestion /\ ~ActionTag(tokens) /\ NominalSubject(tokens)
            /\ QualifyingCount(tokens) >= 5)
          => (label = "None" <=> GovernedSubject(tokens))
    /\ (ReturnedNonQuestion /\ ~ActionTag(tokens) /\ ~GovernedSubject(tokens))
          => label = "FRAGMENT"

\* no verb, adverb or auxiliary: the subject hangs from an appositive
WitnessC8 ==
    /\ ReturnedNonQuestion
    /\ ~ActionTag(tokens)
    /\ \E i \in DOMAIN tokens :
          /\ tokens[i].dep \in {"nsubj", "nsubjpass"}
          /\ tokens[tokens[i].head].dep = "appos"
    /\ label = "None"

(* C9: the correction rule keeps the length of the sequence and every      *)
(* token's text, relation and head; it turns the tag of the tokens tagged  *)
(* NUM whose lowercased text is "2019-ncov" to NOUN and keeps every other  *)
(* tag; applied again, it changes nothing.                                 *)
TheoremC9 ==
    /\ pc = "parsed" => tokens = doc.tokens
    /\ pc \in {"ruled", "returned"} =>
          /\ Len(tokens) = Len(doc.tokens)
          /\ \A i \in DOMAIN tokens :
                /\ tokens[i].text = doc.tokens[i].text
                /\ tokens[i].dep = doc.tokens[i].dep
                /\ tokens[i].head = doc.tokens[i].head
                /\ Children(tokens, i) = Children(doc.tokens, i)
                /\ tokens[i].pos =
                      IF Mistagged(doc.tokens, i) THEN "NOUN" ELSE doc.tokens[i].pos
          /\ applyRules(tokens) = tokens

\* the rule has retagged the identifier and left another NUM token alone
WitnessC9 ==
    /\ pc = "ruled"
    /\ \E i \in DOMAIN tokens : Mistagged(doc.tokens, i) /\ tokens[i].pos = "NOUN"
    /\ \E i \in DOMAIN tokens : doc.tokens[i].pos = "NUM" /\ tokens[i].pos = "NUM"

(* C10: a non-empty text that is not a question always reaches the parser, *)
(* and when the parse has no qualifying token (no token at all, or only    *)
(* PUNCT, SPACE and SYM tokens) label returns FRAGMENT.                    *)
TheoremC10 ==
    ReturnedNonQuestion =>
        /\ calls # <<>> /\ Head(calls) = "nlp"
        /\ doc.kind = "doc"
        /\ QualifyingCount(doc.tokens) = 0 => label = "FRAGMENT"

\* a blank text parsed to nothing but space tokens
WitnessC10 ==
    /\ pc = "returned"
    /\ text.s # <<>> /\ \A i \in DOMAIN text.s : text.s[i] = " "
    /\ doc.tokens # <<>> /\ \A i \in DOMAIN doc.tokens : doc.tokens[i].pos = "SPACE"
    /\ label = "FRAGMENT"

====
